---- MODULE Spec2Model ----
(***************************************************************************)
(* Model of the Tanssi credit checker: the checkCredits command handler    *)
(* (src/tanssi/tools/mainnets/credit-checker.ts) and the Telegram helper   *)
(* functions it calls (src/tanssi/tools/utils/notifications.ts).           *)
(*                                                                         *)
(* The handler is an async function; every await is a step boundary, so    *)
(* each action below is the code between two awaits.  sendTelegramMessage  *)
(* is modelled step by step as well (setup, one action per fetch attempt,  *)
(* one per wake-up after a backoff sleep); the handler waits in            *)
(* "ownerSend" / "broadcastSend" while the call runs.                      *)
(***************************************************************************)
EXTENDS Integers, Sequences, FiniteSets, TLC

\* ------------------------------------------------------------------ bounds
MaxEntities == 2     \* longest list of registered para ids the chain returns
MaxTeams == 2        \* longest secrets.teams list
MaxAttempts == 2     \* largest TELEGRAM_FETCH_ATTEMPTS setting explored
ChainDecimals == 3   \* api.registry.chainDecimals[0] of the modelled chain

\* ------------------------------------------------------- program constants
blocksPerDay == 14400
costPerBlockCents == 3           \* costPerBlock 0.03, in hundredths
costCollatorAssignment == 50
alertThresholdDays == 7
baseDelayMs == 400
maxDelayMs == 4000
JitterRange == 200               \* Math.floor(Math.random() * 200)

\* -------------------------------------------------------------- input sets
\* A para_id as it sits in the parsed secrets JSON: a number, or a text whose
\* Number() is n.  The samples: the broadcast sentinel 0, the number 1, and
\* the text "0" (Number("0") is 0, but "0" === 0 is false).
NumId(n) == [txt |-> FALSE, n |-> n]
TxtId(n) == [txt |-> TRUE, n |-> n]
TeamParaIdSamples == {NumId(0), NumId(1), TxtId(0)}

\* Registered para ids are numbers; 0, an id with an owner team, one without.
EntityIdSamples == {0, 1, 2}

\* argv.threshold: absent, or an override in days (0 is an override too: ??
\* keeps it, and no runway is below it).
ThresholdSamples == { [given |-> FALSE, days |-> 0], [given |-> TRUE, days |-> 0] }

\* Math.random() jitter: the two ends of 0..JitterRange-1.
JitterSamples == {0, JitterRange - 1}

DecimalsFactor == 10 ^ ChainDecimals

\* What the chain answers for one entity: the free balance in planck (nothing,
\* or one token and a fraction) and the block production credits (nothing, or
\* exactly alertThresholdDays * blocksPerDay).
FreeBalanceSamples == {0, 2 * DecimalsFactor - 1}
CreditSamples == {0, 100800}

\* argv.network; every entry of CHAIN_CONFIGS holds the same four numbers.
NetworkSamples == {"tanssi"}

\* CHAIN_CONFIGS[networkName]: the entry the repository ships, and an entry
\* of the same table whose two cost parameters are 0.
ShippedConfig ==
    [blocksPerDay |-> blocksPerDay, costPerBlockCents |-> costPerBlockCents,
     costCollatorAssignment |-> costCollatorAssignment,
     alertThresholdDays |-> alertThresholdDays]
ZeroCostConfig ==
    [ShippedConfig EXCEPT !.costPerBlockCents = 0, !.costCollatorAssignment = 0]
ConfigSamples == {ShippedConfig}

SeqsUpTo(S, n) == UNION { [1..k -> S] : k \in 0..n }

IsInjective(s) == \A i, j \in DOMAIN s : s[i] = s[j] => i = j

\* secrets.teams: team i of the file has name i and chat_id i.
TeamsOf(ids) == [i \in DOMAIN ids |-> [name |-> i, para_id |-> ids[i], chat_id |-> i]]

TeamLists == { TeamsOf(ids) : ids \in SeqsUpTo(TeamParaIdSamples, MaxTeams) }

\* What loadSecrets can return: null; a config without a "teams" array; a
\* config with teams.  tokenOk: telegramBotToken is a string a URL can be
\* built from (a missing or non-string token makes botToken.trim() throw).
SecretsSamples ==
    { [present |-> FALSE, tokenOk |-> FALSE, hasTeams |-> FALSE, teams |-> << >>] }
    \cup { [present |-> TRUE, tokenOk |-> TRUE, hasTeams |-> FALSE, teams |-> << >>] }
    \cup { [present |-> TRUE, tokenOk |-> ok, hasTeams |-> TRUE, teams |-> ts] :
             ok \in BOOLEAN, ts \in TeamLists }

\* The lists registeredParaIds can hold: distinct ids, in any order.
ParaIdLists == { ids \in SeqsUpTo(EntityIdSamples, MaxEntities) : IsInjective(ids) }

\* ---------------------------------------------- notifications.ts, pure parts
\* Number(x) of a para_id value.
NumberOf(v) == v.n

\* t.para_id === 0: a strict comparison, so the text "0" is not the sentinel.
IsBroadcastParaId(v) == v.txt = FALSE /\ v.n = 0

\* findTeamByParaId: the index of the first team whose Number(para_id) is
\* Number(paraId), or 0 for undefined.
findTeamByParaIdStrict(teams, paraId) ==
    LET hits == { i \in DOMAIN teams : teams[i].para_id = NumId(paraId) }
    IN IF hits = {} THEN 0 ELSE CHOOSE i \in hits : \A j \in hits : i <= j
findTeamByParaId(teams, paraId) ==
    LET hits == { i \in DOMAIN teams : NumberOf(teams[i].para_id) = paraId }
    IN IF hits = {} THEN 0 ELSE CHOOSE i \in hits : \A j \in hits : i <= j

Min(a, b) == IF a < b THEN a ELSE b

\* for (let attempt = 1; attempt <= attempts; attempt++): the loop condition.
LoopContinues(attempt, attempts) == attempt <= attempts

\* The value returned once fetch has resolved with a response.
ResponseReturnDropsOk(ok) == FALSE
ResponseReturn(ok) == ok

\* Whether the attempt leaves the function from inside the inner try: fetch
\* resolved and, for a non-2xx response, the error body was read.
ReturnsFromTryOnlyOnError(o) == o = "rejected"
ReturnsFromTry(o) == o = "ok" \/ o = "rejected"

\* if (attempt < attempts) in the inner catch: sleep and try again.
RetryAfterErrorOneShort(attempt, attempts) == attempt + 1 < attempts
RetryAfterError(attempt, attempts) == attempt < attempts

\* backoffMs = Math.min(maxDelayMs, baseDelayMs * 2 ** (attempt - 1))
BackoffMs(attempt) == Min(maxDelayMs, baseDelayMs * 2 ^ (attempt - 1))

\* The outer catch turns whatever was thrown into "return false".
OuterCatchRethrows == "threw"
OuterCatch == "returned"

\* -------------------------------------------- credit-checker.ts, pure parts
notificationsEnabledAlways(s) == TRUE
notificationsEnabled(s) == s.present

\* argv.threshold ?? config.alertThresholdDays
AlertThreshold(arg, cfg) == IF arg.given THEN arg.days ELSE cfg.alertThresholdDays

\* Number(BigInt(freeBalance) / decimalsFactor): whole tokens, truncated.
balanceInTokensRounded(freeBalance) == (2 * freeBalance + DecimalsFactor) \div (2 * DecimalsFactor)
balanceInTokens(freeBalance) == freeBalance \div DecimalsFactor

\* config.costPerBlock * config.blocksPerDay + config.costCollatorAssignment * 4
\* (costPerBlock is held in hundredths; the product is a whole number).
dailyCost(cfg) ==
    (cfg.costPerBlockCents * cfg.blocksPerDay) \div 100 + cfg.costCollatorAssignment * 4

\* What kind of number totalRemainingDays is.  daysFromBalance is
\* balanceInTokens / dailyCost: with dailyCost 0 that is 0 / 0 = NaN for a
\* balance below one token and Infinity otherwise, and adding the (finite)
\* daysFromCredits changes neither.
TotalKind(cfg, freeBalance) ==
    IF dailyCost(cfg) # 0 THEN "finite"
    ELSE IF balanceInTokens(freeBalance) = 0 THEN "NaN" ELSE "Infinity"

\* A finite totalRemainingDays = credits / blocksPerDay + balanceInTokens /
\* dailyCost, kept as the fraction DaysNum / DaysDen.
DaysNum(cfg, credits, freeBalance) ==
    credits * dailyCost(cfg) + balanceInTokens(freeBalance) * cfg.blocksPerDay
DaysDen(cfg) == cfg.blocksPerDay * dailyCost(cfg)

\* isLowCredits = totalRemainingDays < alertThreshold (false for NaN and Infinity)
IsLowCreditsOrEqual(cfg, credits, freeBalance, threshold) ==
    /\ TotalKind(cfg, freeBalance) = "finite"
    /\ DaysNum(cfg, credits, freeBalance) <= threshold * DaysDen(cfg)
isLowCredits(cfg, credits, freeBalance, threshold) ==
    /\ TotalKind(cfg, freeBalance) = "finite"
    /\ DaysNum(cfg, credits, freeBalance) < threshold * DaysDen(cfg)

\* totalRemainingDays.toFixed(2): for a finite value the number of hundredths
\* (rounded to nearest); "NaN" and "Infinity" print as themselves (0 here,
\* next to TotalKind).
RemainingDaysFixed(cfg, credits, freeBalance) ==
    IF TotalKind(cfg, freeBalance) # "finite" THEN 0
    ELSE LET num == DaysNum(cfg, credits, freeBalance)
             den == DaysDen(cfg)
         IN (num \div den) * 100 + ((num % den) * 100 + den \div 2) \div den

\* The report of every entity: Para ID, Address, Free Balance, Credits and
\* Remaining Days are written whether or not the entity is low.
ReportsAfterOnlyLow(reports, paraId, low) == IF low THEN Append(reports, paraId) ELSE reports
ReportsAfter(reports, paraId, low) == Append(reports, paraId)

\* for (const paraId of paraIds): the id the idx-th iteration works on.
CurrentParaIdReversed(ids, i) == ids[Len(ids) + 1 - i]
CurrentParaId(ids, i) == ids[i]

\* if (isLowCredits) write the WARNING line.
WarningWritten(low) == low

\* The last line of a run: 'No registered container chains found.' or
\* 'Done'; neither carries a count.
NoLine == [text |-> "", counted |-> FALSE, count |-> 0]
NoneFoundLine == [text |-> "No registered container chains found.", counted |-> FALSE, count |-> 0]
DoneLine == [text |-> "Done", counted |-> FALSE, count |-> 0]

\* An exception thrown by an awaited query inside try: there is no catch,
\* so it leaves through finally.
OnQueryErrorContinues == "next"
OnQueryError == "finally"

\* if (isLowCredits) { ... if (notificationsEnabled) { ...dispatch... } }
DispatchGuardIgnoresLow(low, enabled) == enabled
DispatchGuard(low, enabled) == low /\ enabled

\* secrets.teams.filter(t => t.para_id === 0)
BroadcastFilterLoose(teams) == SelectSeq(teams, LAMBDA t : NumberOf(t.para_id) = 0)
BroadcastFilter(teams) == SelectSeq(teams, LAMBDA t : IsBroadcastParaId(t.para_id))

NoMessage ==
    [kind |-> "none", network |-> "", paraId |-> 0, days |-> 0, nameInfo |-> 0,
     qualifiers |-> {}]

\* teamMessage: "Your *network* chain with ID *paraId* ... Remaining Days ..."
TeamMessage(network, paraId, days) ==
    [kind |-> "owner", network |-> network, paraId |-> paraId, days |-> days,
     nameInfo |-> 0, qualifiers |-> {}]

\* The qualifier appended to the broadcast message (team is an index into
\* secrets.teams, 0 when findTeamByParaId returned undefined).
QualifiersIgnoreFailure(team, teamNotFound, teamNotificationFailed) ==
    IF teamNotFound THEN {[q |-> "notFound", name |-> 0]} ELSE {}
Qualifiers(team, teamNotFound, teamNotificationFailed) ==
    IF teamNotFound THEN {[q |-> "notFound", name |-> 0]}
    ELSE IF teamNotificationFailed /\ team # 0 THEN {[q |-> "failed", name |-> team]}
    ELSE {}

\* broadcastMessage: "A *network* chain with ID *paraId*<teamNameInfo> ..."
BroadcastMessage(network, paraId, days, team, teamNotFound, teamNotificationFailed) ==
    [kind |-> "broadcast", network |-> network, paraId |-> paraId, days |-> days,
     nameInfo |-> team,
     qualifiers |-> Qualifiers(team, teamNotFound, teamNotificationFailed)]

\* let teamNotificationFailed = false: declared inside the loop body, so each
\* entity starts with a fresh flag whatever the previous entity left.
FlagAtEntryCarried(previous) == previous
FlagAtEntry(previous) == FALSE

\* teamNotificationFailed after the owner send: set in the else branch of if (sent).
FailedFlagNeverSet(sent) == FALSE
FailedFlag(sent) == ~sent

\* Where the handler goes once the owner send has returned: on to the
\* broadcast block, whatever the result.
AfterOwnerSendAborts(sent) == IF sent THEN "broadcast" ELSE "finally"
AfterOwnerSend(sent) == "broadcast"

\* if (broadcastTeams.length > 0): the broadcast block runs.
BroadcastBlockRunsForSeveral(n) == n > 1
BroadcastBlockRuns(n) == n > 0

\* for (const broadcastTeam of broadcastTeams): whether another send follows
\* the one to team number bidx, whatever its result.
MoreBroadcastStopsOnFailure(sent, bidx, n) == sent /\ bidx < n
MoreBroadcast(sent, bidx, n) == bidx < n

\* ------------------------------------------------------------------- state
VARIABLES
    secrets,        \* what loadSecrets() returned
    attempts,       \* Number(process.env.TELEGRAM_FETCH_ATTEMPTS ?? 5); 0 also stands for NaN
    thresholdArg,   \* argv.threshold
    networkName,    \* argv.network
    config,         \* CHAIN_CONFIGS[networkName]
    pc,             \* where the handler is
    connected,      \* the api connection is open
    nDisconnects,   \* api.disconnect() calls made
    lastLine,       \* the closing line written to stdout
    error,          \* the exception travelling to the caller: "none", "query", "send", "setup"
    paraIds,        \* registeredParaIds.toJSON()
    idx,            \* index in paraIds of the entity being processed
    freeBalance,    \* accountInfo.data.free of the current entity
    credits,        \* blockProductionCredits of the current entity
    daysKind,       \* totalRemainingDays of the current entity: "finite", "NaN", "Infinity"
    warned,         \* the WARNING line was written for the current entity
    isLow,          \* isLowCredits of the current entity
    days,           \* totalRemainingDays.toFixed(2) of the current entity, in hundredths
    team,           \* findTeamByParaId result: index in secrets.teams, 0 = undefined
    broadcastTeams, \* the filtered broadcast teams of the current entity
    teamNotificationFailed,
    teamNotFound,
    broadcastMessage,
    bidx,           \* position of the broadcast loop in broadcastTeams
    sendPc,         \* sendTelegramMessage: "idle", "setup", "fetch", "sleeping", "returned", "threw"
    sendArgs,       \* [chat_id, message] of the call in progress
    attempt,        \* the loop variable of the call in progress
    outcomes,       \* how each fetch of the call in progress ended
    sleepMs,        \* the backoff sleep in progress, 0 when none
    nSleeps,        \* backoff sleeps started by the call in progress
    sendValue,      \* the boolean the call returned
    openCalls,      \* sendTelegramMessage calls that were made and have not settled
    reports,        \* the para ids of the per-entity reports written to stdout, in order
    nLow,           \* how many of the reports carried the low-credit warning
    sent,           \* the send calls issued for the current entity, in order
    lookups,        \* findTeamByParaId calls made for the current entity
    nDispatched,    \* how many entities had their dispatch block entered
    failedAt,       \* index of the first entity one of whose sends returned false, 0 = none
    anyFailed,      \* some send of the current entity returned false
    ownerOutcome    \* what the current entity's owner send returned: "none" yet, "true", "false"

runVars == <<secrets, attempts, thresholdArg, networkName, config>>
connVars == <<connected, nDisconnects>>
loopVars == <<paraIds, idx, freeBalance, credits, isLow, days, daysKind, warned>>
routeVars == <<team, broadcastTeams, teamNotificationFailed, teamNotFound,
               broadcastMessage, bidx>>
sendVars == <<sendPc, sendArgs, attempt, outcomes, sleepMs, nSleeps, sendValue,
              openCalls>>
histVars == <<reports, nLow, sent, lookups, nDispatched, failedAt, anyFailed,
              ownerOutcome>>
vars == <<runVars, pc, connVars, lastLine, error, loopVars, routeVars, sendVars,
          histVars>>

NoArgs == [chat_id |-> 0, message |-> NoMessage]

FetchOutcomes == {"ok", "rejected", "rejectedBodyFail", "transport"}

\* The handler has just got its api from getApiFor: nothing else has happened.
InitRest ==
    /\ pc = "setup"
    /\ connected = TRUE
    /\ nDisconnects = 0
    /\ lastLine = NoLine
    /\ error = "none"
    /\ paraIds = << >>
    /\ idx = 0
    /\ freeBalance = 0
    /\ credits = 0
    /\ isLow = FALSE
    /\ days = 0
    /\ daysKind = "finite"
    /\ warned = FALSE
    /\ team = 0
    /\ broadcastTeams = << >>
    /\ teamNotificationFailed = FALSE
    /\ teamNotFound = FALSE
    /\ broadcastMessage = NoMessage
    /\ bidx = 0
    /\ sendPc = "idle"
    /\ sendArgs = NoArgs
    /\ attempt = 0
    /\ outcomes = << >>
    /\ sleepMs = 0
    /\ nSleeps = 0
    /\ sendValue = FALSE
    /\ openCalls = 0
    /\ reports = << >>
    /\ nLow = 0
    /\ sent = << >>
    /\ lookups = 0
    /\ nDispatched = 0
    /\ failedAt = 0
    /\ anyFailed = FALSE
    /\ ownerOutcome = "none"

Init ==
    /\ secrets \in SecretsSamples
    /\ attempts \in 0..MaxAttempts
    /\ thresholdArg \in ThresholdSamples
    /\ networkName \in NetworkSamples
    /\ config \in ConfigSamples
    /\ InitRest

\* ------------------------------------------------ sendTelegramMessage steps
\* The call itself: the arguments are bound and the body starts.
CallSend(chatId, message) ==
    /\ sendPc' = "setup"
    /\ sendArgs' = [chat_id |-> chatId, message |-> message]
    /\ attempt' = 0
    /\ outcomes' = << >>
    /\ sleepMs' = 0
    /\ nSleeps' = 0
    /\ sendValue' = FALSE
    /\ openCalls' = openCalls + 1
    /\ sent' = Append(sent, [to |-> chatId, message |-> message])

\* return <value> from inside the function.
SendReturns(value) ==
    /\ sendPc' = "returned"
    /\ sendValue' = value
    /\ openCalls' = openCalls - 1

\* An exception reaching the outer catch.
SendCaught ==
    /\ sendPc' = OuterCatch
    /\ sendValue' = FALSE
    /\ openCalls' = openCalls - 1

\* Lines 52-64: trim the token, build the URL, read the settings, enter the loop.
SendSetup ==
    /\ sendPc = "setup"
    /\ IF ~secrets.tokenOk
       THEN SendCaught /\ UNCHANGED attempt
       ELSE /\ attempt' = 1
            /\ IF LoopContinues(1, attempts)
               THEN sendPc' = "fetch" /\ UNCHANGED <<sendValue, openCalls>>
               ELSE SendReturns(FALSE)
    /\ UNCHANGED <<sendArgs, outcomes, sleepMs, nSleeps>>
    /\ UNCHANGED <<runVars, pc, connVars, lastLine, error, loopVars, routeVars, histVars>>

\* Lines 65-130: one fetch and what follows it up to the next await or return.
\* o says how the fetch ended; jitter is Math.floor(Math.random() * 200).
Attempt(o, jitter) ==
    /\ sendPc = "fetch"
    /\ outcomes' = Append(outcomes, o)
    /\ IF ReturnsFromTry(o)
       THEN SendReturns(ResponseReturn(o = "ok")) /\ UNCHANGED <<sleepMs, nSleeps>>
       ELSE IF RetryAfterError(attempt, attempts)
            THEN /\ sendPc' = "sleeping"
                 /\ sleepMs' = BackoffMs(attempt) + jitter
                 /\ nSleeps' = nSleeps + 1
                 /\ UNCHANGED <<sendValue, openCalls>>
            ELSE SendReturns(FALSE) /\ UNCHANGED <<sleepMs, nSleeps>>
    /\ UNCHANGED <<sendArgs, attempt>>
    /\ UNCHANGED <<runVars, pc, connVars, lastLine, error, loopVars, routeVars, histVars>>

\* The sleep is over: continue, attempt++, and the loop condition again.
Wake ==
    /\ sendPc = "sleeping"
    /\ sleepMs' = 0
    /\ attempt' = attempt + 1
    /\ IF LoopContinues(attempt + 1, attempts)
       THEN sendPc' = "fetch" /\ UNCHANGED <<sendValue, openCalls>>
       ELSE SendReturns(FALSE)
    /\ UNCHANGED <<sendArgs, outcomes, nSleeps>>
    /\ UNCHANGED <<runVars, pc, connVars, lastLine, error, loopVars, routeVars, histVars>>

\* The caller takes the result; the call's locals are gone.
SendConsumed ==
    /\ sendPc' = "idle"
    /\ sendArgs' = NoArgs
    /\ attempt' = 0
    /\ outcomes' = << >>
    /\ sleepMs' = 0
    /\ nSleeps' = 0
    /\ sendValue' = FALSE
    /\ UNCHANGED openCalls

\* await: the handler resumes only when the call has settled.
SendFinishedNotAwaited == TRUE
SendFinished == sendPc = "returned" \/ sendPc = "threw"

\* ------------------------------------------------ checkCredits handler steps
ResetRoute ==
    /\ team' = 0
    /\ broadcastTeams' = << >>
    /\ teamNotificationFailed' = FlagAtEntry(teamNotificationFailed)
    /\ teamNotFound' = FALSE
    /\ broadcastMessage' = NoMessage
    /\ bidx' = 0

\* Lines 43-62, between getApiFor and the try: config, threshold, secrets and
\* the banner; secrets.teams.length throws when the secrets hold no teams.
Setup ==
    /\ pc = "setup"
    /\ IF secrets.present /\ ~secrets.hasTeams
       THEN pc' = "crashed" /\ error' = "setup"
       ELSE pc' = "fetch" /\ UNCHANGED error
    /\ UNCHANGED <<runVars, connVars, lastLine, loopVars, routeVars, sendVars, histVars>>

\* Lines 65-79: the registered ids arrive; none means return through finally.
FetchParaIds(ids) ==
    /\ pc = "fetch"
    /\ paraIds' = ids
    /\ IF Len(ids) = 0
       THEN pc' = "finally" /\ idx' = 0 /\ lastLine' = NoneFoundLine
       ELSE pc' = "balance" /\ idx' = 1 /\ UNCHANGED lastLine
    /\ UNCHANGED <<freeBalance, credits, isLow, days, daysKind, warned>>
    /\ UNCHANGED <<runVars, connVars, error, routeVars, sendVars, histVars>>

\* A query that rejects: the exception leaves the try through finally.
QueryFails ==
    /\ pc \in {"fetch", "balance", "credits"}
    /\ pc' = OnQueryError
    /\ error' = "query"
    /\ UNCHANGED <<runVars, connVars, lastLine, loopVars, routeVars, sendVars, histVars>>

\* Lines 81-86: the tank account's free balance arrives.
QueryBalance(free) ==
    /\ pc = "balance"
    /\ freeBalance' = free
    /\ pc' = "credits"
    /\ UNCHANGED <<paraIds, idx, credits, isLow, days, daysKind, warned>>
    /\ UNCHANGED <<runVars, connVars, lastLine, error, routeVars, sendVars, histVars>>

\* Lines 89-120: the credits arrive; runway, isLowCredits and the report.
QueryCredits(c) ==
    /\ pc = "credits"
    /\ credits' = c
    /\ LET low == isLowCredits(config, c, freeBalance, AlertThreshold(thresholdArg, config))
           fixed == RemainingDaysFixed(config, c, freeBalance)
       IN /\ isLow' = low
          /\ days' = fixed
          /\ daysKind' = TotalKind(config, freeBalance)
          /\ reports' = ReportsAfter(reports, CurrentParaId(paraIds, idx), low)
          /\ warned' = WarningWritten(low)
          /\ nLow' = IF WarningWritten(low) THEN nLow + 1 ELSE nLow
          /\ pc' = IF DispatchGuard(low, notificationsEnabled(secrets))
                   THEN "route" ELSE "next"
    /\ UNCHANGED <<paraIds, idx, freeBalance>>
    /\ UNCHANGED <<sent, lookups, nDispatched, failedAt, anyFailed, ownerOutcome>>
    /\ UNCHANGED <<runVars, connVars, lastLine, error, routeVars, sendVars>>

\* Lines 125-150: owner lookup, broadcast filter, and the owner send is called
\* (or the missing owner is noted).
Route ==
    /\ pc = "route"
    /\ LET t == findTeamByParaId(secrets.teams, CurrentParaId(paraIds, idx))
       IN /\ team' = t
          /\ broadcastTeams' = BroadcastFilter(secrets.teams)
          /\ teamNotificationFailed' = FlagAtEntry(teamNotificationFailed)
          /\ lookups' = lookups + 1
          /\ nDispatched' = nDispatched + 1
          /\ IF t # 0
             THEN /\ teamNotFound' = FALSE
                  /\ CallSend(secrets.teams[t].chat_id,
                              TeamMessage(networkName, CurrentParaId(paraIds, idx), days))
                  /\ pc' = "ownerSend"
             ELSE /\ teamNotFound' = TRUE
                  /\ pc' = "broadcast"
                  /\ UNCHANGED <<sendVars, sent>>
    /\ UNCHANGED <<broadcastMessage, bidx, failedAt, anyFailed, ownerOutcome>>
    /\ UNCHANGED <<runVars, connVars, lastLine, error, loopVars, reports, nLow>>

\* A send that returned false is remembered.
NoteResult(ok) ==
    /\ anyFailed' = (anyFailed \/ ~ok)
    /\ failedAt' = IF ~ok /\ failedAt = 0 THEN idx ELSE failedAt

\* Lines 140-146: the awaited owner send has settled.
OwnerSendReturns ==
    /\ pc = "ownerSend"
    /\ SendFinished
    /\ IF sendPc = "threw"
       THEN /\ pc' = "finally" /\ error' = "send"
            /\ UNCHANGED <<teamNotificationFailed, failedAt, anyFailed, ownerOutcome>>
       ELSE /\ teamNotificationFailed' = (teamNotificationFailed \/ FailedFlag(sendValue))
            /\ ownerOutcome' = IF sendValue THEN "true" ELSE "false"
            /\ pc' = AfterOwnerSend(sendValue)
            /\ NoteResult(sendValue)
            /\ UNCHANGED error
    /\ SendConsumed
    /\ UNCHANGED <<team, broadcastTeams, teamNotFound, broadcastMessage, bidx>>
    /\ UNCHANGED <<runVars, connVars, lastLine, loopVars, reports, nLow, sent, lookups, nDispatched>>

\* Lines 153-167: the broadcast message is composed and the first broadcast
\* send is called; with no broadcast team the block is skipped.
Broadcast ==
    /\ pc = "broadcast"
    /\ IF BroadcastBlockRuns(Len(broadcastTeams))
       THEN LET m == BroadcastMessage(networkName, CurrentParaId(paraIds, idx), days, team,
                                      teamNotFound, teamNotificationFailed)
            IN /\ broadcastMessage' = m
               /\ bidx' = 1
               /\ CallSend(broadcastTeams[1].chat_id, m)
               /\ pc' = "broadcastSend"
       ELSE /\ pc' = "next"
            /\ UNCHANGED <<broadcastMessage, bidx, sendVars, sent>>
    /\ UNCHANGED <<team, broadcastTeams, teamNotificationFailed, teamNotFound>>
    /\ UNCHANGED <<runVars, connVars, lastLine, error, loopVars>>
    /\ UNCHANGED <<reports, nLow, lookups, nDispatched, failedAt, anyFailed,
                   ownerOutcome>>

\* Lines 166-173: an awaited broadcast send has settled; the next one is
\* called, or the loop is over.
BroadcastSendReturns ==
    /\ pc = "broadcastSend"
    /\ SendFinished
    /\ IF sendPc = "threw"
       THEN /\ pc' = "finally" /\ error' = "send"
            /\ SendConsumed
            /\ UNCHANGED <<bidx, sent, failedAt, anyFailed>>
       ELSE /\ NoteResult(sendValue)
            /\ UNCHANGED error
            /\ IF MoreBroadcast(sendValue, bidx, Len(broadcastTeams))
               THEN /\ bidx' = bidx + 1
                    /\ CallSend(broadcastTeams[bidx + 1].chat_id, broadcastMessage)
                    /\ pc' = "broadcastSend"
               ELSE /\ pc' = "next"
                    /\ SendConsumed
                    /\ UNCHANGED <<bidx, sent>>
    /\ UNCHANGED <<team, broadcastTeams, teamNotificationFailed, teamNotFound,
                   broadcastMessage>>
    /\ UNCHANGED <<runVars, connVars, lastLine, loopVars, reports, nLow, lookups, nDispatched,
                   ownerOutcome>>

\* Lines 177-180: the entity is finished; its block-scoped variables go, and
\* the loop takes the next id or writes Done.
NextEntity ==
    /\ pc = "next"
    /\ ResetRoute
    /\ sent' = << >>
    /\ lookups' = 0
    /\ anyFailed' = FALSE
    /\ ownerOutcome' = "none"
    /\ IF idx < Len(paraIds)
       THEN idx' = idx + 1 /\ pc' = "balance"
       ELSE idx' = idx /\ pc' = "finally"
    /\ lastLine' = IF idx < Len(paraIds) THEN lastLine ELSE DoneLine
    /\ freeBalance' = 0
    /\ credits' = 0
    /\ isLow' = FALSE
    /\ days' = 0
    /\ daysKind' = "finite"
    /\ warned' = FALSE
    /\ UNCHANGED <<paraIds, reports, nLow, nDispatched, failedAt>>
    /\ UNCHANGED <<runVars, connVars, error, sendVars>>

\* Lines 181-183: finally { await api.disconnect() }; a pending exception
\* goes on to the caller.
Disconnect ==
    /\ pc = "finally"
    /\ connected' = FALSE
    /\ nDisconnects' = nDisconnects + 1
    /\ pc' = IF error = "none" THEN "done" ELSE "failed"
    /\ UNCHANGED <<runVars, lastLine, error, loopVars, routeVars, sendVars, histVars>>

Next ==
    \/ Setup
    \/ \E ids \in ParaIdLists : FetchParaIds(ids)
    \/ QueryFails
    \/ \E free \in FreeBalanceSamples : QueryBalance(free)
    \/ \E c \in CreditSamples : QueryCredits(c)
    \/ Route
    \/ SendSetup
    \/ \E o \in FetchOutcomes, jitter \in JitterSamples : Attempt(o, jitter)
    \/ Wake
    \/ OwnerSendReturns
    \/ Broadcast
    \/ BroadcastSendReturns
    \/ NextEntity
    \/ Disconnect

Spec == Init /\ [][Next]_vars

\* ------------------------------------------------- runs that are not cut off
\* The data source answers every query and every fetch settles (a response,
\* a network error or the AbortSignal timeout); the event loop resumes every
\* continuation that is ready, so a step that can be taken is taken.
NextAnswered ==
    \/ Setup
    \/ \E ids \in ParaIdLists : FetchParaIds(ids)
    \/ \E free \in FreeBalanceSamples : QueryBalance(free)
    \/ \E c \in CreditSamples : QueryCredits(c)
    \/ Route
    \/ SendSetup
    \/ \E o \in FetchOutcomes, jitter \in JitterSamples : Attempt(o, jitter)
    \/ Wake
    \/ OwnerSendReturns
    \/ Broadcast
    \/ BroadcastSendReturns
    \/ NextEntity
    \/ Disconnect

LiveSpec == Init /\ [][NextAnswered]_vars /\ WF_vars(NextAnswered)

\* ---------------------------------------------- runs that exercise the runway
\* The same handler with one fixed secrets file (the owner of entity 1 and a
\* broadcast team) and more of the numbers the data source, the command line
\* and CHAIN_CONFIGS can supply.
CalcSecrets ==
    [present |-> TRUE, tokenOk |-> TRUE, hasTeams |-> TRUE,
     teams |-> TeamsOf(<<NumId(1), NumId(0)>>)]
CalcThresholdSamples ==
    { [given |-> FALSE, days |-> 0], [given |-> TRUE, days |-> 0],
      [given |-> TRUE, days |-> alertThresholdDays + 1],
      [given |-> TRUE, days |-> 2 * alertThresholdDays] }
CalcConfigSamples == {ShippedConfig, ZeroCostConfig}
CalcParaIdLists == { << >>, <<1>>, <<2>> }
CalcFreeBalanceSamples ==
    {0, DecimalsFactor - 1, DecimalsFactor, 2 * DecimalsFactor - 1, 2 * DecimalsFactor}
CalcCreditSamples == {0, 100000, 100760, 100800, 200000}

InitCalc ==
    /\ secrets = CalcSecrets
    /\ attempts = MaxAttempts
    /\ thresholdArg \in CalcThresholdSamples
    /\ networkName \in NetworkSamples
    /\ config \in CalcConfigSamples
    /\ InitRest

NextCalc ==
    \/ Setup
    \/ \E ids \in CalcParaIdLists : FetchParaIds(ids)
    \/ QueryFails
    \/ \E free \in CalcFreeBalanceSamples : QueryBalance(free)
    \/ \E c \in CalcCreditSamples : QueryCredits(c)
    \/ Route
    \/ SendSetup
    \/ \E o \in FetchOutcomes, jitter \in JitterSamples : Attempt(o, jitter)
    \/ Wake
    \/ OwnerSendReturns
    \/ Broadcast
    \/ BroadcastSendReturns
    \/ NextEntity
    \/ Disconnect

CalcSpec == InitCalc /\ [][NextCalc]_vars

\* ------------------------------------------------------------------ claims
Ended == pc \in {"finally", "done", "failed"}

\* C1: a send that returned false does not abort the loop.  In every run with
\* a send that returned false, once the handler has left the loop for any
\* reason other than a rejected query, every entity the data source returned
\* has been reported and the dispatch block of every low one was entered.
C1_FailedSendDoesNotAbort ==
    (Ended /\ failedAt # 0 /\ error # "query")
        => /\ reports = paraIds
           /\ nDispatched = nLow

\* The first of two entities had a failed send and the run went on to the end.
C1_Witness ==
    /\ pc = "done"
    /\ failedAt = 1
    /\ Len(paraIds) = 2
    /\ reports = paraIds
    /\ nDispatched = 2

IsRejection(o) == o = "rejected" \/ o = "rejectedBodyFail"

\* C2: an attempt that receives a non-2xx response is the last attempt: the
\* call has returned false, with no further attempt and no backoff sleep.
C2_RejectionIsFinal ==
    \A k \in DOMAIN outcomes :
        IsRejection(outcomes[k])
            => /\ k = Len(outcomes)
               /\ sendPc = "returned"
               /\ sendValue = FALSE
               /\ sleepMs = 0
               /\ nSleeps = k - 1

TransportThenOk(os) ==
    /\ Len(os) >= 1
    /\ os[Len(os)] = "ok"
    /\ \A j \in 1..(Len(os) - 1) : os[j] = "transport"

\* C3: when the first k-1 attempts failed at transport level and attempt k
\* received a 2xx response, the call has returned true after exactly k
\* attempts (k-1 sleeps, loop variable k, k within the limit).
C3_RetryThenSuccess ==
    TransportThenOk(outcomes)
        => /\ sendPc = "returned"
           /\ sendValue = TRUE
           /\ attempt = Len(outcomes)
           /\ nSleeps = Len(outcomes) - 1
           /\ Len(outcomes) <= attempts

\* k = N >= 2: the last allowed attempt succeeds after N-1 transport failures.
C3_Witness ==
    /\ TransportThenOk(outcomes)
    /\ attempts >= 2
    /\ Len(outcomes) = attempts
    /\ sendValue = TRUE

AllTransport(os) == Len(os) >= 1 /\ \A j \in DOMAIN os : os[j] = "transport"

\* C4 as stated: for N >= 1 a send call performs at least 1 and at most N
\* attempts, and N transport failures give false after exactly N attempts.
C4_AttemptsBetweenOneAndN ==
    attempts >= 1
        => /\ Len(outcomes) <= attempts
           /\ sendPc = "returned" => Len(outcomes) >= 1
           /\ (sendPc = "returned" /\ AllTransport(outcomes))
                  => (sendValue = FALSE /\ Len(outcomes) = attempts)

\* C4 amended: for N >= 1 a send call never performs more than N attempts; it
\* performs at least 1 unless building the request from the credential
\* throws, in which case it returns false without any attempt; N transport
\* failures give false after exactly N attempts.
C4_AttemptsAtMostN ==
    attempts >= 1
        => /\ Len(outcomes) <= attempts
           /\ (sendPc = "returned" /\ secrets.tokenOk) => Len(outcomes) >= 1
           /\ (sendPc = "returned" /\ ~secrets.tokenOk)
                  => (Len(outcomes) = 0 /\ sendValue = FALSE)
           /\ (sendPc = "returned" /\ AllTransport(outcomes))
                  => (sendValue = FALSE /\ Len(outcomes) = attempts)

\* Every one of N >= 2 attempts failed at transport level.
C4_Witness ==
    /\ sendPc = "returned"
    /\ attempts >= 2
    /\ AllTransport(outcomes)
    /\ Len(outcomes) = attempts

\* C5: no exception leaves a send call: the call never ends by throwing, and
\* the handler never sees an exception from a send.
C5_SendNeverThrows ==
    /\ sendPc # "threw"
    /\ error # "send"

\* The request could not be built from the credential, and the call returned
\* false all the same.
C5_Witness ==
    /\ sendPc = "returned"
    /\ ~secrets.tokenOk
    /\ sendValue = FALSE
    /\ pc \in {"ownerSend", "broadcastSend"}

BroadcastSends == SelectSeq(sent, LAMBDA s : s.message.kind = "broadcast")

DispatchFinished == pc = "next" /\ lookups > 0

\* C6: a failed send never skips the remaining recipients of its entity.
\* When the dispatch block of an entity with a failed send is over, every
\* broadcast team has had a send issued to it.
C6_FailedSendSkipsNoRecipient ==
    (DispatchFinished /\ anyFailed)
        => \A i \in DOMAIN broadcastTeams :
               \E j \in DOMAIN sent :
                   /\ sent[j].to = broadcastTeams[i].chat_id
                   /\ sent[j].message.kind = "broadcast"

\* No owner team, the send to the first broadcast team returned false, and
\* the send to the second one has been issued.
C6_Witness ==
    /\ pc = "broadcastSend"
    /\ team = 0
    /\ anyFailed
    /\ bidx = 2
    /\ Len(sent) = 2

HasFailedQualifier(m) == \E x \in m.qualifiers : x.q = "failed"

\* C7: for an entity with an owner team the owner send has returned before
\* the broadcast message is composed and before any broadcast send is
\* issued, and the message reflects what the owner send returned.
C7_OwnerSettledBeforeBroadcast ==
    /\ pc = "ownerSend"
          => /\ broadcastMessage = NoMessage
             /\ Len(sent) = 1
             /\ sent[1].message.kind = "owner"
    /\ (team # 0 /\ (broadcastMessage # NoMessage \/ BroadcastSends # << >>))
          => /\ ownerOutcome # "none"
             /\ sent[1].message.kind = "owner"
             /\ HasFailedQualifier(broadcastMessage) <=> (ownerOutcome = "false")

\* The owner send returned false and a broadcast send carrying the
\* failed-to-notify qualifier is in progress.
C7_Witness ==
    /\ pc = "broadcastSend"
    /\ team # 0
    /\ ownerOutcome = "false"
    /\ sendPc = "fetch"
    /\ HasFailedQualifier(sendArgs.message)

OwnerMatched ==
    \E i \in DOMAIN secrets.teams : NumberOf(secrets.teams[i].para_id) = paraIds[idx]

\* C8: the broadcast message carries the no-team qualifier exactly when no
\* team matched the entity id, the failed-to-notify qualifier (naming the
\* owner) exactly when an owner matched and its send returned false, none
\* when the owner send returned true, never both, and the owner's name
\* exactly when an owner matched.
C8_BroadcastQualifiers ==
    broadcastMessage # NoMessage
        => LET q == broadcastMessage.qualifiers
           IN /\ ([q |-> "notFound", name |-> 0] \in q) <=> ~OwnerMatched
              /\ HasFailedQualifier(broadcastMessage)
                    <=> (OwnerMatched /\ ownerOutcome = "false")
              /\ ownerOutcome = "true" => q = {}
              /\ Cardinality(q) <= 1
              /\ \A x \in q : x.q = "failed" => x.name = secrets.teams[team].name
              /\ (broadcastMessage.nameInfo # 0) <=> OwnerMatched
              /\ OwnerMatched => broadcastMessage.nameInfo = secrets.teams[team].name

\* A broadcast message naming the owner whose notification failed.
C8_Witness ==
    /\ broadcastMessage # NoMessage
    /\ OwnerMatched
    /\ ownerOutcome = "false"
    /\ broadcastMessage.qualifiers = {[q |-> "failed", name |-> secrets.teams[team].name]}

\* C9: for an entity that is not low no team is looked up, no message is
\* composed and no send call is issued.
C9_NotLowNoDispatch ==
    ~isLow
        => /\ lookups = 0
           /\ sent = << >>
           /\ broadcastMessage = NoMessage
           /\ sendPc = "idle"
           /\ pc \notin {"route", "ownerSend", "broadcast", "broadcastSend"}

\* An entity that is not low has been reported with notifications enabled
\* and an owner team and a broadcast team configured.
C9_Witness ==
    /\ pc = "next"
    /\ ~isLow
    /\ secrets.present
    /\ findTeamByParaId(secrets.teams, paraIds[idx]) # 0
    /\ \E i \in DOMAIN secrets.teams : secrets.teams[i].para_id = NumId(0)

ChatIds(ts) == [i \in DOMAIN ts |-> ts[i].chat_id]

\* C10: for a low entity with notifications enabled the broadcast sends go
\* to exactly the teams whose para_id is the number 0, once each, in their
\* stored order, each carrying the broadcast message, owner or no owner.
C10_BroadcastRecipients ==
    DispatchFinished
        => /\ [i \in DOMAIN BroadcastSends |-> BroadcastSends[i].to]
                = ChatIds(SelectSeq(secrets.teams, LAMBDA t : t.para_id = NumId(0)))
           /\ \A i \in DOMAIN BroadcastSends :
                  BroadcastSends[i].message = broadcastMessage

\* Two broadcast teams were sent the message in stored order, with no owner.
C10_Witness ==
    /\ DispatchFinished
    /\ team = 0
    /\ Len(BroadcastSends) = 2
    /\ BroadcastSends[1].to < BroadcastSends[2].to

TeamMatches(i) == NumberOf(secrets.teams[i].para_id) = paraIds[idx]

OwnerSends == SelectSeq(sent, LAMBDA s : s.message.kind = "owner")

\* C11: the owner of a low entity is a team whose para_id, as a number,
\* equals the entity id (a text para_id matches the numeric id); with no
\* such team there is no owner and no owner send; with several the first in
\* stored order is the owner, and it alone is sent the owner message.
C11_OwnerIsFirstNumericMatch ==
    lookups > 0
        => /\ (team = 0) <=> ~(\E i \in DOMAIN secrets.teams : TeamMatches(i))
           /\ team # 0 => /\ TeamMatches(team)
                          /\ \A j \in 1..(team - 1) : ~TeamMatches(j)
                          /\ Len(OwnerSends) = 1
                          /\ OwnerSends[1].to = secrets.teams[team].chat_id
           /\ team = 0 => OwnerSends = << >>

\* Two teams match entity 0; the first, whose para_id is the text "0", is
\* the owner and was sent the owner message.
C11_Witness ==
    /\ lookups > 0
    /\ Len(secrets.teams) = 2
    /\ secrets.teams[1].para_id = TxtId(0)
    /\ TeamMatches(2)
    /\ team = 1
    /\ Len(OwnerSends) = 1

\* After the run has ended no query is pending or can be issued: the three
\* query steps are the only ones that use the api.
QueryPending == pc \in {"fetch", "balance", "credits"}
RunOver == pc \in {"done", "failed", "crashed"}

\* C12: once the connection is open, every way the run ends (no entities,
\* normal completion, a failed query, any other error after opening) has
\* released the connection exactly once, and no query follows the release.
C12_ReleasedOnEveryExit ==
    /\ RunOver => (~connected /\ nDisconnects = 1)
    /\ nDisconnects <= 1
    /\ ~connected => ~QueryPending

DispatchPcs == {"route", "ownerSend", "broadcast", "broadcastSend"}

\* C13: when loadSecrets returned null, no send call is issued for any entity
\* (the dispatch block is never entered), yet every entity whose credits have
\* arrived has its report written and, exactly when it is low, its warning;
\* a run that completes has reported every registered entity.
C13_NoSecretsReportOnly ==
    ~secrets.present
        => /\ sent = << >>
           /\ sendPc = "idle"
           /\ openCalls = 0
           /\ lookups = 0
           /\ pc \notin DispatchPcs
           /\ pc = "next" => /\ reports = SubSeq(paraIds, 1, idx)
                             /\ warned = isLow
           /\ (pc = "done" /\ error = "none") => reports = paraIds
C13_Witness ==
    /\ ~secrets.present
    /\ pc = "done"
    /\ Len(paraIds) = MaxEntities
    /\ reports = paraIds
    /\ nLow > 0
    /\ sent = << >>

\* C14: a rejected balance or credits query for entity idx stops the run at
\* that entity.  The entity is not reported and not evaluated (no report, no
\* isLow, no warning), nothing was dispatched for it and nothing is dispatched
\* afterwards, the handler is in finally or has rejected, and it has rejected
\* only with the connection released.
C14_QueryFailureStopsRun ==
    (error = "query" /\ idx > 0)
        => /\ pc \in {"finally", "failed"}
           /\ reports = SubSeq(paraIds, 1, idx - 1)
           /\ ~isLow /\ ~warned
           /\ sent = << >> /\ lookups = 0
           /\ sendPc = "idle" /\ openCalls = 0
           /\ nDispatched <= idx - 1
           /\ pc = "failed" => (~connected /\ nDisconnects = 1)
C14_Witness ==
    /\ error = "query"
    /\ pc = "failed"
    /\ idx = MaxEntities
    /\ Len(reports) = idx - 1
    /\ nDispatched = idx - 1
    /\ freeBalance > 0
    /\ ~connected

\* The current entity has been evaluated: its credits have arrived and the
\* next entity has not been started.
Evaluated == pc \in DispatchPcs \cup {"next"}
Threshold == AlertThreshold(thresholdArg, config)
ThresholdRange == 0..(2 * alertThresholdDays)

\* C15: isLow is a strict comparison.  An entity whose runway equals the
\* threshold exactly is not low and has no alert sent; and with the runway
\* fixed, every higher threshold keeps a low entity low and every lower
\* threshold keeps a not-low entity not low.
C15_StrictAndMonotone ==
    Evaluated
        => /\ (daysKind = "finite"
                 /\ DaysNum(config, credits, freeBalance) = Threshold * DaysDen(config))
              => (~isLow /\ ~warned /\ sent = << >> /\ pc = "next")
           /\ \A t \in ThresholdRange :
                /\ (isLow /\ t >= Threshold)
                      => isLowCredits(config, credits, freeBalance, t)
                /\ (~isLow /\ t <= Threshold)
                      => ~isLowCredits(config, credits, freeBalance, t)
C15_Witness ==
    /\ Evaluated
    /\ secrets.present
    /\ daysKind = "finite"
    /\ Threshold = alertThresholdDays
    /\ credits = alertThresholdDays * blocksPerDay
    /\ DaysNum(config, credits, freeBalance) = Threshold * DaysDen(config)
    /\ ~isLow
    /\ isLowCredits(config, credits, freeBalance, Threshold + 1)

\* The whole tokens of a free balance, found without dividing: the t with
\* t * 10^decimals <= freeBalance < (t + 1) * 10^decimals.
WholeTokens(free) ==
    CHOOSE t \in 0..2 : t * DecimalsFactor <= free /\ free < (t + 1) * DecimalsFactor
ClaimedDailyCost(cfg) ==
    (cfg.costPerBlockCents * cfg.blocksPerDay) \div 100 + cfg.costCollatorAssignment * 4
PositiveCosts ==
    config.costPerBlockCents > 0 /\ config.costCollatorAssignment > 0

\* C16: for positive cost parameters an evaluated entity is low exactly when
\* credits / blocksPerDay + wholeTokens / dailyCost < threshold (compared
\* after multiplying both sides by blocksPerDay * dailyCost), where the whole
\* tokens drop every fractional unit of the balance; with the shipped
\* parameters, threshold 7 and a balance of one token, 0 and 100000 credits
\* are low and 200000 credits are not.
C16_RunwayFormula ==
    (Evaluated /\ PositiveCosts)
        => /\ isLow <=>
                (credits * ClaimedDailyCost(config)
                     + WholeTokens(freeBalance) * config.blocksPerDay
                   < Threshold * config.blocksPerDay * ClaimedDailyCost(config))
           /\ (config = ShippedConfig /\ Threshold = 7 /\ WholeTokens(freeBalance) = 1)
                => /\ credits \in {0, 100000} => isLow
                   /\ credits = 200000 => ~isLow
C16_Witness ==
    /\ Evaluated
    /\ config = ShippedConfig
    /\ Threshold = 7
    /\ freeBalance = 2 * DecimalsFactor - 1
    /\ credits = 100760
    /\ isLow

Completed == pc \in {"finally", "done"} /\ error = "none"

SendActive == sendPc \in {"setup", "fetch", "sleeping"}

\* C20: at every point of a run at most one notification request is in
\* flight.  At most one sendTelegramMessage call is open, and it is the one
\* the handler is awaiting; its attempts are the steps of that one call; a
\* call is open only while the handler waits for an owner or broadcast send
\* of the current entity, so none is open when the handler moves to another
\* entity, and every send issued so far for the current entity but the last
\* has returned.
C20_OneRequestInFlight ==
    /\ openCalls \in {0, 1}
    /\ openCalls = 1 <=> SendActive
    /\ sendPc # "idle" => pc \in {"ownerSend", "broadcastSend"}
    /\ pc \notin {"ownerSend", "broadcastSend"} => openCalls = 0
    /\ \A i \in DOMAIN sent : sent[i].message.paraId = paraIds[idx]
    /\ SendActive => sendArgs.chat_id = sent[Len(sent)].to
C20_Witness ==
    /\ pc = "broadcastSend"
    /\ idx = MaxEntities
    /\ Len(sent) > 1
    /\ sendPc = "fetch"
    /\ attempt = MaxAttempts
    /\ openCalls = 1

\* What one step of the handler may do to the loop: the legal successors of
\* each position, written from the order of the statements in the loop body.
StepsInOrder ==
    /\ (pc' = "balance" /\ pc # "balance")
          => /\ pc \in {"fetch", "next"}
             /\ idx' = idx + 1
             /\ Len(reports) = idx
             /\ openCalls = 0 /\ sendPc = "idle"
    /\ (pc' = "credits" /\ pc # "credits") => (pc = "balance" /\ idx' = idx)
    /\ reports' # reports
          => /\ pc = "credits"
             /\ reports' = Append(reports, paraIds[idx])
    /\ (pc' \in DispatchPcs /\ pc \notin DispatchPcs)
          => (pc = "credits" /\ Len(reports') = idx)
    /\ Len(sent') > Len(sent)
          => /\ Len(reports) = idx
             /\ sent'[Len(sent')].message.paraId = paraIds[idx]
    /\ idx' # idx => (idx' = idx + 1 /\ pc' = "balance")
    /\ (paraIds' # paraIds) => pc = "fetch"

\* C21: entities are processed in exactly the order the data source returned
\* them, none skipped or repeated: the reports written so far are always the
\* first ids of the list in its order, the entity being queried is the next
\* one, and its balance query, credits query, report and dispatches follow
\* each other in that order; the next entity's balance is queried only when
\* the report is written and no send call is open.
C21_EntitiesInOrder ==
    /\ [](/\ Len(reports) <= Len(paraIds)
          /\ reports = SubSeq(paraIds, 1, Len(reports))
          /\ pc \in {"balance", "credits"} => (Len(reports) = idx - 1 /\ sent = << >>)
          /\ Evaluated => Len(reports) = idx)
    /\ [][StepsInOrder]_vars
C21_Witness ==
    /\ pc = "done"
    /\ Len(paraIds) = MaxEntities
    /\ paraIds[1] > paraIds[2]
    /\ reports = paraIds
    /\ nDispatched = MaxEntities

\* min(4000, 400 * 2^(k-1)), written out.
ClaimedBackoff(k) == IF 400 * 2 ^ (k - 1) < 4000 THEN 400 * 2 ^ (k - 1) ELSE 4000
BackoffRange == 1..8

\* C22: the sleep after failed attempt k of one send call is
\* min(4000, 400 * 2^(k-1)) ms plus a jitter of 0 to 199 ms, so at least 400
\* and at most 4199 ms; the backoff part never decreases as k grows; and the
\* call sleeps only after a transport failure of an attempt that is not the
\* last one, never before the first attempt, after a response or after the
\* final attempt.
C22_BackoffSleep ==
    /\ \A k \in BackoffRange :
          /\ BackoffMs(k) = ClaimedBackoff(k)
          /\ k > 1 => BackoffMs(k - 1) <= BackoffMs(k)
    /\ sendPc = "sleeping"
          => /\ \E j \in 0..199 : sleepMs = ClaimedBackoff(attempt) + j
             /\ sleepMs >= 400 /\ sleepMs <= 4199
             /\ Len(outcomes) = attempt /\ attempt >= 1
             /\ outcomes[attempt] = "transport"
             /\ attempt < attempts
    /\ sendPc # "sleeping" => sleepMs = 0
    /\ nSleeps <= Len(SelectSeq(outcomes, LAMBDA o : o = "transport"))

\* C24: a send call returns true only when the last attempt it made received
\* a 2xx response, and a 2xx response ends the call at once: it is the last
\* outcome of the call, the call has returned true, and no sleep or attempt
\* follows it.
C24_TrueOnlyOnSuccess ==
    /\ (sendPc = "returned" /\ sendValue)
          => (outcomes # << >> /\ outcomes[Len(outcomes)] = "ok")
    /\ \A i \in DOMAIN outcomes :
          outcomes[i] = "ok"
             => /\ i = Len(outcomes)
                /\ sendPc = "returned"
                /\ sendValue
                /\ sleepMs = 0
                /\ attempt = i
                /\ openCalls = 0
C24_Witness ==
    /\ sendPc = "returned"
    /\ sendValue
    /\ attempt = MaxAttempts
    /\ Len(outcomes) = MaxAttempts
    /\ outcomes[MaxAttempts] = "ok"
    /\ nSleeps = MaxAttempts - 1

HasOwner == \E i \in DOMAIN secrets.teams : TeamMatches(i)
BroadcastTeamIndexes == { i \in DOMAIN secrets.teams : secrets.teams[i].para_id = NumId(0) }

\* C25: for a low entity with notifications enabled, once its dispatch is
\* over, the number of send calls made for it is 1 if an owner team matched
\* (else 0) plus the number of broadcast teams; with neither an owner nor a
\* broadcast team no send is made and the warning was still written.
C25_SendCount ==
    (pc = "next" /\ isLow /\ secrets.present)
        => /\ lookups > 0
           /\ warned
           /\ Len(sent) = (IF HasOwner THEN 1 ELSE 0) + Cardinality(BroadcastTeamIndexes)
           /\ Len(OwnerSends) = (IF HasOwner THEN 1 ELSE 0)
           /\ Len(BroadcastSends) = Cardinality(BroadcastTeamIndexes)
           /\ (~HasOwner /\ BroadcastTeamIndexes = {}) => sent = << >>
C25_Witness ==
    /\ pc = "next" /\ isLow /\ secrets.present
    /\ HasOwner
    /\ Cardinality(BroadcastTeamIndexes) = 1
    /\ Len(sent) = 2
C25_WitnessNoRecipient ==
    /\ pc = "next" /\ isLow /\ secrets.present
    /\ ~HasOwner /\ BroadcastTeamIndexes = {}
    /\ Len(secrets.teams) > 0
    /\ warned /\ sent = << >>

TeamOfChat(chat) == CHOOSE i \in DOMAIN secrets.teams : secrets.teams[i].chat_id = chat

\* C26: a team whose para_id is 0, a broadcast recipient, never receives the
\* owner message, and no team receives both the owner message and the
\* broadcast message for the same entity, whatever ids the registry returned.
C26_BroadcastTeamNeverOwner ==
    /\ \A i \in DOMAIN OwnerSends :
          ~IsBroadcastParaId(secrets.teams[TeamOfChat(OwnerSends[i].to)].para_id)
    /\ \A i \in DOMAIN OwnerSends, j \in DOMAIN BroadcastSends :
          OwnerSends[i].to # BroadcastSends[j].to

FailedQualifiers(m) == { q \in m.qualifiers : q.q = "failed" }

\* C27: the owner-missing and owner-failed flags belong to one entity.  A
\* 'failed to notify' qualifier in a broadcast message of the current entity
\* names the current entity's own owner and is there only if the owner send
\* of this entity returned false; a failed send for an earlier entity never
\* puts it there, and an entity starts with both flags down.
C27_FlagsArePerEntity ==
    /\ \A i \in DOMAIN BroadcastSends :
          LET m == BroadcastSends[i].message
          IN /\ m.paraId = paraIds[idx]
             /\ \A q \in FailedQualifiers(m) :
                   /\ ownerOutcome = "false"
                   /\ q.name = team
                   /\ team # 0 /\ TeamMatches(team)
             /\ (ownerOutcome = "false") => FailedQualifiers(m) # {}
    /\ pc \in {"balance", "credits", "route"}
          => (~teamNotificationFailed /\ ~teamNotFound /\ ownerOutcome = "none")
C27_Witness ==
    /\ idx = MaxEntities
    /\ failedAt = 1
    /\ ownerOutcome = "true"
    /\ Len(BroadcastSends) > 0
    /\ FailedQualifiers(BroadcastSends[1].message) = {}

\* C28: when every query is answered and every attempt settles, every send
\* call that was made returns, and the run reaches its end with the
\* connection released.
C28_RunTerminates ==
    /\ (openCalls > 0) ~> (openCalls = 0)
    /\ <>(RunOver /\ ~connected)

====
